---- MODULE Spec2Model ----
(***************************************************************************)
(* Model of build-news.mjs: a one-shot static-site build step that fetches *)
(* entries from a content API, renders rich text to HTML, splices listing  *)
(* cards into NEWS.html, writes one detail page per entry, a sitemap and   *)
(* an RSS feed.                                                            *)
(*                                                                         *)
(* Strings are sequences of one-character strings, so that trim, slice,    *)
(* lower-casing, escaping and regex replacement are computed character by  *)
(* character.  HTML output is a sequence of characters and tag tokens.     *)
(***************************************************************************)
EXTENDS Integers, Sequences, FiniteSets, TLC

VARIABLES
    pc,             \* position of the top-level script
    SPACE,          \* process.env.CONTENTFUL_SPACE_ID is set
    TOKEN,          \* process.env.CONTENTFUL_CDA_TOKEN is set
    CONTENTFUL_ENV, \* process.env.CONTENTFUL_ENV ("" when not set)
    envCandidates,  \* deduplicated candidate environments
    idx,            \* position of the for-of loop in envCandidates
    requests,       \* fetch() calls issued so far, with their answers
    data,           \* parsed payload (NullData until a fetch succeeds)
    ENV_USED,       \* environment of the successful fetch ("" = null)
    errorMsg,       \* environments named by the thrown exhaustion error
    assetMap,       \* id -> asset, built from data.includes.Asset
    newsTpl,        \* NEWS.html as read at start of page assembly
    NEWS_html,      \* the file NEWS.html on disk
    pages,          \* the files news/<slug>/index.html on disk, by slug
    artIdx,         \* position of the per-article loop in data.items
    sitemap_xml,    \* the file sitemap.xml on disk (<<>> = absent)
    news_xml,       \* the file news.xml on disk (<<>> = absent)
    fsWrites,       \* fs.writeFileSync calls issued so far
    fnArgs,         \* arguments of the helper call under study
    fnRet,          \* its return value
    fnPc            \* "idle" before the call, "returned" after it

vars == <<pc, SPACE, TOKEN, CONTENTFUL_ENV, envCandidates, idx, requests,
          data, ENV_USED, errorMsg, assetMap, newsTpl, NEWS_html, pages,
          artIdx, sitemap_xml, news_xml, fsWrites, fnArgs, fnRet, fnPc>>

pipelineVars == <<pc, SPACE, TOKEN, CONTENTFUL_ENV, envCandidates, idx,
                  requests, data, ENV_USED, errorMsg, assetMap, newsTpl,
                  NEWS_html, pages, artIdx, sitemap_xml, news_xml, fsWrites>>

fnVars == <<fnArgs, fnRet, fnPc>>

\* ------------------------------------------------------------------------
\* Bounds
\* ------------------------------------------------------------------------
MaxStrLen == 4      \* longest input string given to slugify
MaxDocLen == 3      \* most top-level nodes in a document given to splitLead
MaxTake == 2        \* largest "take" given to splitLead
MaxPlainDocLen == 2 \* most top-level nodes in a document given to richToPlain
MaxPlainLen == 4    \* largest "max" given to richToPlain
MaxAssets == 2      \* most records in includes.Asset given to the renderer
MaxItems == 2       \* most entries in a fetched payload
MaxTplLen == 2      \* most tokens in the NEWS.html template

\* ------------------------------------------------------------------------
\* Generic sequence helpers
\* ------------------------------------------------------------------------
SeqsUpTo(S, n) == UNION {[1..k -> S] : k \in 0..n}

Min(a, b) == IF a < b THEN a ELSE b

Take(s, n) == SubSeq(s, 1, Min(n, Len(s)))

Front(s) == SubSeq(s, 1, Len(s) - 1)

RECURSIVE Flatten(_)
Flatten(ss) == IF ss = <<>> THEN <<>> ELSE Head(ss) \o Flatten(Tail(ss))

\* ------------------------------------------------------------------------
\* String primitives of the JavaScript runtime, on character sequences
\* ------------------------------------------------------------------------
IsSpace(c) == c = " "

\* String.prototype.toLowerCase on the modelled characters
LowerChar(c) == IF c = "A" THEN "a" ELSE IF c = "B" THEN "b" ELSE c

toLowerCase(s) == [i \in 1..Len(s) |-> LowerChar(s[i])]

RECURSIVE TrimStart(_)
TrimStart(s) ==
    IF s # <<>> /\ IsSpace(Head(s)) THEN TrimStart(Tail(s)) ELSE s

RECURSIVE TrimEnd(_)
TrimEnd(s) ==
    IF s # <<>> /\ IsSpace(s[Len(s)]) THEN TrimEnd(Front(s)) ELSE s

\* String.prototype.trim
trim(s) == TrimEnd(TrimStart(s))

\* String.prototype.slice(0, max) for max >= 0
slice0(s, max) == Take(s, max)

\* ------------------------------------------------------------------------
\* slugify  (lines 15-16)
\* ------------------------------------------------------------------------
\* the character class [a-z0-9]
IsSlugChar(c) == c \in {"a", "b", "1"}

RECURSIVE SkipNonSlug(_)
SkipNonSlug(s) ==
    IF s # <<>> /\ ~IsSlugChar(Head(s)) THEN SkipNonSlug(Tail(s)) ELSE s

\* plausible slip: the "+" is missing, every character becomes a hyphen
RECURSIVE ReplaceNonSlugRuns_each(_)
ReplaceNonSlugRuns_each(s) ==
    IF s = <<>> THEN <<>>
    ELSE IF IsSlugChar(Head(s))
         THEN <<Head(s)>> \o ReplaceNonSlugRuns_each(Tail(s))
         ELSE <<"-">> \o ReplaceNonSlugRuns_each(Tail(s))

\* .replace(/[^a-z0-9]+/g, "-"): every maximal run becomes one hyphen
RECURSIVE ReplaceNonSlugRuns(_)
ReplaceNonSlugRuns(s) ==
    IF s = <<>> THEN <<>>
    ELSE IF IsSlugChar(Head(s))
         THEN <<Head(s)>> \o ReplaceNonSlugRuns(Tail(s))
         ELSE <<"-">> \o ReplaceNonSlugRuns(SkipNonSlug(Tail(s)))

\* .replace(/(^-|-$)/g, ""): one hyphen at the start, one at the end
StripEdgeHyphens(s) ==
    LET s1 == IF s # <<>> /\ Head(s) = "-" THEN Tail(s) ELSE s
    IN  IF s1 # <<>> /\ s1[Len(s1)] = "-" THEN Front(s1) ELSE s1

slugify(s) == StripEdgeHyphens(ReplaceNonSlugRuns(toLowerCase(trim(s))))

\* ------------------------------------------------------------------------
\* esc  (lines 18-19)
\* ------------------------------------------------------------------------
EscChar(c) ==
    CASE c = "&"  -> <<"&", "a", "m", "p", ";">>
      [] c = "<"  -> <<"&", "l", "t", ";">>
      [] c = ">"  -> <<"&", "g", "t", ";">>
      [] c = "\"" -> <<"&", "q", "u", "o", "t", ";">>
      [] c = "'"  -> <<"&", "#", "3", "9", ";">>
      [] OTHER    -> <<c>>

esc(s) == Flatten([i \in 1..Len(s) |-> EscChar(s[i])])

\* ------------------------------------------------------------------------
\* Rich-text documents.  A node is a record of one fixed shape; fields a
\* node kind does not carry are empty ("" or <<>>), which is how the code's
\* "|| ''", "|| []" and "?." read a missing field.
\* ------------------------------------------------------------------------
Text(v, ms) == [nodeType |-> "text", value |-> v, marks |-> ms,
                content |-> <<>>, uri |-> <<>>, target |-> ""]

Block(t, kids) == [nodeType |-> t, value |-> <<>>, marks |-> <<>>,
                   content |-> kids, uri |-> <<>>, target |-> ""]

Link(u, kids) == [nodeType |-> "hyperlink", value |-> <<>>, marks |-> <<>>,
                  content |-> kids, uri |-> u, target |-> ""]

Embedded(t, id) == [nodeType |-> t, value |-> <<>>, marks |-> <<>>,
                    content |-> <<>>, uri |-> <<>>, target |-> id]

Document(kids) == Block("document", kids)

\* ------------------------------------------------------------------------
\* Asset map  (lines 43-56)
\* ------------------------------------------------------------------------
\* a record of includes.Asset: fileUrl = <<>> when fields.file or file.url
\* is missing, width/height = "" when details.image is missing
RawAsset(id, u, t, d, w, h) ==
    [id |-> id, fileUrl |-> u, title |-> t, description |-> d,
     width |-> w, height |-> h]

\* the value the map callback builds for one asset
MapAsset(a) ==
    [url |-> <<"https:">> \o a.fileUrl, title |-> a.title,
     desc |-> a.description, width |-> a.width, height |-> a.height]

\* new Map(list.map(...)): a later record with the same id wins
BuildAssetMap(assets) ==
    LET ids == {assets[i].id : i \in 1..Len(assets)}
        last(id) == CHOOSE i \in 1..Len(assets) :
                        /\ assets[i].id = id
                        /\ \A j \in 1..Len(assets) : assets[j].id = id => j <= i
    IN  [id \in ids |-> MapAsset(assets[last(id)])]

\* ------------------------------------------------------------------------
\* renderNewsImage  (lines 59-73); img.src = <<>> stands for "no img"
\* ------------------------------------------------------------------------
renderNewsImage(img, i) ==
    IF img.src = <<>> THEN <<>>
    ELSE <<"<img src=\"">> \o img.src \o <<"\" alt=\"">> \o esc(img.alt)
         \o <<"\" class=\"news-image\" loading=\"">>
         \o <<IF i = 0 THEN "eager" ELSE "lazy">>
         \o <<"\" decoding=\"async\" fetchpriority=\"">>
         \o <<IF i = 0 THEN "high" ELSE "low">> \o <<"\"">>
         \o (IF img.width # "" /\ img.height # ""
             THEN <<" width=\"", img.width, "\" height=\"", img.height, "\"">>
             ELSE <<>>)
         \o <<">">>

\* ------------------------------------------------------------------------
\* renderRich  (lines 76-120)
\* ------------------------------------------------------------------------
HeadingTypes == {"heading-1", "heading-2", "heading-3",
                 "heading-4", "heading-5", "heading-6"}

\* t.split("-")[1]
HeadingLevel(t) ==
    CASE t = "heading-1" -> "1" [] t = "heading-2" -> "2"
      [] t = "heading-3" -> "3" [] t = "heading-4" -> "4"
      [] t = "heading-5" -> "5" [] t = "heading-6" -> "6"

\* lines 85-90: each mark wraps the previous result, in declared order
RECURSIVE ApplyMarks(_, _)
ApplyMarks(out, marks) ==
    IF marks = <<>> THEN out
    ELSE LET m == Head(marks)
             w == CASE m = "bold"      -> <<"<strong>">> \o out \o <<"</strong>">>
                    [] m = "italic"    -> <<"<em>">> \o out \o <<"</em>">>
                    [] m = "underline" -> <<"<u>">> \o out \o <<"</u>">>
                    [] m = "code"      -> <<"<code>">> \o out \o <<"</code>">>
                    [] OTHER           -> out
         IN  ApplyMarks(w, Tail(marks))

\* lines 109-111: id ? assetMap.get(id) : null, then !asset?.url
AssetUnusable(am, id) ==
    id = "" \/ id \notin DOMAIN am \/ am[id].url = <<>>

\* lines 108-115
renderEmbedded(node, am) ==
    IF AssetUnusable(am, node.target) THEN <<>>
    ELSE LET asset == am[node.target]
             alt == esc(IF asset.title # <<>> THEN asset.title ELSE asset.desc)
             wh == IF asset.width # "" /\ asset.height # ""
                   THEN <<" width=\"", asset.width,
                          "\" height=\"", asset.height, "\"">>
                   ELSE <<>>
         IN  <<"<figure>", "<img src=\"">> \o asset.url \o <<"\" alt=\"">>
             \o alt
             \o <<"\" class=\"news-image\" loading=\"lazy\" decoding=\"async\"">>
             \o wh \o <<">", "</figure>">>

RECURSIVE renderNode(_, _)
RECURSIVE renderNodes(_, _)
renderNodes(nodes, am) ==
    Flatten([i \in 1..Len(nodes) |-> renderNode(nodes[i], am)])

renderNode(node, am) ==
    LET t == node.nodeType
        kids == renderNodes(node.content, am)
    IN  CASE t = "text" -> ApplyMarks(esc(node.value), node.marks)
          [] t = "paragraph" -> <<"<p>">> \o kids \o <<"</p>">>
          [] t \in HeadingTypes ->
                <<"<h", HeadingLevel(t), ">">> \o kids
                \o <<"</h", HeadingLevel(t), ">">>
          [] t = "unordered-list" -> <<"<ul>">> \o kids \o <<"</ul>">>
          [] t = "ordered-list" -> <<"<ol>">> \o kids \o <<"</ol>">>
          [] t = "list-item" -> <<"<li>">> \o kids \o <<"</li>">>
          [] t = "blockquote" ->
                <<"<blockquote>">> \o kids \o <<"</blockquote>">>
          [] t = "hr" -> <<"<hr/>">>
          [] t = "hyperlink" ->
                <<"<a href=\"">>
                \o (IF node.uri # <<>> THEN esc(node.uri) ELSE <<"#">>)
                \o <<"\" target=\"_blank\" rel=\"noopener\">">> \o kids
                \o <<"</a>">>
          [] t \in {"embedded-asset-block", "embedded-asset-inline"} ->
                renderEmbedded(node, am)
          [] OTHER -> kids

\* rt.content = <<>> covers both "!rt?.content" and an empty array
renderRich(rt, am) == renderNodes(rt.content, am)

\* ------------------------------------------------------------------------
\* splitLead  (lines 123-134)
\* ------------------------------------------------------------------------
\* plausible slip: the node kind is not tested
TakesNode_anyKind(node, take, taken) == taken < take

\* line 127: the condition under which a node goes to the lead
TakesNode(node, take, taken) ==
    taken < take /\ node.nodeType = "paragraph"

\* lines 126-129: the for-of loop, from the position reached so far
RECURSIVE SplitLoop(_, _, _, _, _)
SplitLoop(nodes, take, taken, outLead, outRest) ==
    IF nodes = <<>>
    THEN [lead |-> Document(outLead), rest |-> Document(outRest)]
    ELSE IF TakesNode(Head(nodes), take, taken)
         THEN SplitLoop(Tail(nodes), take, taken + 1,
                        Append(outLead, Head(nodes)), outRest)
         ELSE SplitLoop(Tail(nodes), take, taken,
                        outLead, Append(outRest, Head(nodes)))

splitLead(rt, take) == SplitLoop(rt.content, take, 0, <<>>, <<>>)

\* ------------------------------------------------------------------------
\* richToPlain  (lines 137-146)
\* ------------------------------------------------------------------------
\* lines 139-144: walk, threading buf through the depth-first traversal
RECURSIVE walk(_, _, _)
RECURSIVE walkArray(_, _, _)
walkArray(ns, buf, max) ==
    IF ns = <<>> THEN buf
    ELSE walkArray(Tail(ns), walk(Head(ns), buf, max), max)

walk(n, buf, max) ==
    IF Len(buf) >= max THEN buf
    ELSE LET b1 == IF n.nodeType = "text" THEN buf \o n.value ELSE buf
         IN  walkArray(n.content, b1, max)

richToPlain(rt, max) == esc(slice0(trim(walk(rt, <<>>, max)), max))

\* ------------------------------------------------------------------------
\* Values the variables hold while the part they belong to is not running
\* ------------------------------------------------------------------------
NullData == [null |-> TRUE, items |-> <<>>, assets |-> <<>>]

PipelineUnused ==
    /\ pc = "unused" /\ SPACE = FALSE /\ TOKEN = FALSE
    /\ CONTENTFUL_ENV = "" /\ envCandidates = <<>> /\ idx = 1
    /\ requests = <<>> /\ data = NullData /\ ENV_USED = ""
    /\ errorMsg = <<>> /\ assetMap = <<>> /\ newsTpl = <<>>
    /\ NEWS_html = <<>> /\ pages = <<>> /\ artIdx = 1
    /\ sitemap_xml = <<>> /\ news_xml = <<>> /\ fsWrites = <<>>

FnUnused == fnArgs = <<>> /\ fnRet = <<>> /\ fnPc = "unused"

\* ------------------------------------------------------------------------
\* slugify applied once and then to its own result
\* ------------------------------------------------------------------------
SlugAlphabet == {"A", "a", "b", "1", " ", "-", "!"}

InitSlugify ==
    /\ PipelineUnused
    /\ fnPc = "idle"
    /\ fnArgs \in [s : SeqsUpTo(SlugAlphabet, MaxStrLen)]
    /\ fnRet = [once |-> <<>>, twice |-> <<>>]

SlugifyOnce ==
    /\ fnPc = "idle"
    /\ fnRet' = [fnRet EXCEPT !.once = slugify(fnArgs.s)]
    /\ fnPc' = "once"
    /\ UNCHANGED <<fnArgs, pipelineVars>>

SlugifyTwice ==
    /\ fnPc = "once"
    /\ fnRet' = [fnRet EXCEPT !.twice = slugify(fnRet.once)]
    /\ fnPc' = "twice"
    /\ UNCHANGED <<fnArgs, pipelineVars>>

NextSlugify == SlugifyOnce \/ SlugifyTwice

SpecSlugify == InitSlugify /\ [][NextSlugify]_vars

\* ------------------------------------------------------------------------
\* splitLead applied to a document
\* ------------------------------------------------------------------------
SplitNodes ==
    { Block("paragraph", <<Text(<<"a">>, <<>>)>>),
      Block("paragraph", <<Text(<<"b">>, <<"bold">>)>>),
      Block("heading-2", <<Text(<<"a">>, <<>>)>>),
      Block("hr", <<>>) }

InitSplitLead ==
    /\ PipelineUnused
    /\ fnPc = "idle"
    /\ fnArgs \in [rt : {Document(k) : k \in SeqsUpTo(SplitNodes, MaxDocLen)},
                   take : 0..MaxTake]
    /\ fnRet = <<>>

CallSplitLead ==
    /\ fnPc = "idle"
    /\ fnRet' = splitLead(fnArgs.rt, fnArgs.take)
    /\ fnPc' = "returned"
    /\ UNCHANGED <<fnArgs, pipelineVars>>

NextSplitLead == CallSplitLead

SpecSplitLead == InitSplitLead /\ [][NextSplitLead]_vars

\* ------------------------------------------------------------------------
\* richToPlain applied to a document
\* ------------------------------------------------------------------------
PlainNodes ==
    { Text(<<" ", "a">>, <<>>),
      Text(<<"a", "<">>, <<>>),
      Text(<<"b", " ">>, <<"italic">>),
      Block("paragraph", <<Text(<<"a">>, <<>>), Text(<<" ", "b">>, <<>>)>>),
      Block("blockquote",
            <<Block("paragraph", <<Text(<<"&", "a", "b">>, <<>>)>>)>>),
      Block("hr", <<>>) }

\* the document "Hello " + "<world>" of the specification's example
HelloWorldDoc ==
    Document(<<Block("paragraph",
        <<Text(<<"H", "e", "l", "l", "o", " ">>, <<>>),
          Text(<<"<", "w", "o", "r", "l", "d", ">">>, <<>>)>>)>>)

InitRichToPlain ==
    /\ PipelineUnused
    /\ fnPc = "idle"
    /\ \/ fnArgs \in
            [rt : {Document(k) : k \in SeqsUpTo(PlainNodes, MaxPlainDocLen)},
             max : 0..MaxPlainLen]
       \/ fnArgs = [rt |-> HelloWorldDoc, max |-> 8]
    /\ fnRet = <<>>

CallRichToPlain ==
    /\ fnPc = "idle"
    /\ fnRet' = richToPlain(fnArgs.rt, fnArgs.max)
    /\ fnPc' = "returned"
    /\ UNCHANGED <<fnArgs, pipelineVars>>

NextRichToPlain == CallRichToPlain

SpecRichToPlain == InitRichToPlain /\ [][NextRichToPlain]_vars

\* ------------------------------------------------------------------------
\* renderRich applied to a document holding one embedded-media node, with
\* the asset map built from an includes.Asset list
\* ------------------------------------------------------------------------
UrlA == <<"/", "/", "a">>
UrlB == <<"/", "/", "b">>

RenderAssets ==
    { RawAsset("a1", UrlA, <<"t", "<">>, <<>>, "640", "480"),
      RawAsset("a1", <<>>, <<"t">>, <<"d">>, "", ""),
      RawAsset("a2", UrlB, <<>>, <<"d">>, "640", "") }

RenderDocs ==
    { Document(<<Embedded(t, id)>>) :
        t \in {"embedded-asset-block", "embedded-asset-inline"},
        id \in {"", "a1", "a2", "a3"} }
    \cup
    { Document(<<Block("paragraph",
                       <<Text(<<"a">>, <<>>), Embedded("embedded-asset-inline", id)>>)>>) :
        id \in {"a1", "a3"} }

InitRender ==
    /\ PipelineUnused
    /\ fnPc = "idle"
    /\ fnArgs \in [assets : SeqsUpTo(RenderAssets, MaxAssets), rt : RenderDocs]
    /\ fnRet = <<>>

CallRenderRich ==
    /\ fnPc = "idle"
    /\ fnRet' = renderRich(fnArgs.rt, BuildAssetMap(fnArgs.assets))
    /\ fnPc' = "returned"
    /\ UNCHANGED <<fnArgs, pipelineVars>>

NextRender == CallRenderRich

SpecRender == InitRender /\ [][NextRender]_vars

\* ------------------------------------------------------------------------
\* The build script, top to bottom
\* ------------------------------------------------------------------------
\* an item of data.items: missing fields are empty
Entry(id, title, slug, date, link, image, body) ==
    [id |-> id, title |-> title, slug |-> slug, date |-> date,
     link |-> link, image |-> image, body |-> body]

Catalogue ==
    { Entry(<<"1", "a">>, <<"A", " ", "b">>, <<>>, "2024-01-01", <<>>, "a1",
            Document(<<Block("paragraph", <<Text(<<"a", "<">>, <<>>)>>),
                       Block("heading-2", <<Text(<<"b">>, <<>>)>>),
                       Block("paragraph", <<Text(<<"b">>, <<"bold">>)>>)>>)),
      Entry(<<"1", "b">>, <<"b">>, <<"a", "-", "B">>, "2024-06-15",
            <<"/", "/", "b">>, "",
            Document(<<Block("paragraph", <<Text(<<" ", "b">>, <<>>)>>)>>)),
      Entry(<<"a", "1">>, <<"!">>, <<>>, "", <<>>, "a2",
            Document(<<Embedded("embedded-asset-block", "a3")>>)),
      Entry(<<"A", "1">>, <<>>, <<>>, "2024-03-10", <<>>, "a3",
            Document(<<>>)) }

PayloadAssets ==
    << RawAsset("a1", UrlA, <<"t">>, <<>>, "640", "480"),
       RawAsset("a2", <<>>, <<>>, <<"d">>, "", "") >>

IsInjective(f) == \A i, j \in DOMAIN f : f[i] = f[j] => i = j

\* what res.json() may yield for a successful response
Bodies ==
    {NullData} \cup
    { [null |-> FALSE, items |-> its, assets |-> PayloadAssets] :
        its \in {q \in SeqsUpTo(Catalogue, MaxItems) : IsInjective(q)} }

\* HTTP statuses the content API answers with
Statuses == {200, 401, 403, 404, 500}

\* tokens of the NEWS.html template
Tok(t) == [k |-> "tok", tok |-> t, card |-> <<>>]
CardTok(c) == [k |-> "card", tok |-> "", card |-> c]

START == Tok("<!-- START:NEWS-LIST -->")
END == Tok("<!-- END:NEWS-LIST -->")
HEADEND == Tok("</head>")
RSSLINK == Tok("<link rel=\"alternate\" type=\"application/rss+xml\">")
NL == Tok("\n")
OTHER_TEXT == Tok("x")

TplTokens == {START, END, HEADEND, RSSLINK, OTHER_TEXT}

Init ==
    /\ FnUnused
    /\ pc = "start"
    /\ SPACE \in BOOLEAN
    /\ TOKEN \in BOOLEAN
    /\ CONTENTFUL_ENV \in {"", "staging", "master", "main"}
    /\ envCandidates = <<>>
    /\ idx = 1
    /\ requests = <<>>
    /\ data = NullData
    /\ ENV_USED = ""
    /\ errorMsg = <<>>
    /\ assetMap = <<>>
    /\ newsTpl = <<>>
    /\ NEWS_html \in SeqsUpTo(TplTokens, MaxTplLen)
    /\ pages = <<>>
    /\ artIdx = 1
    /\ sitemap_xml = <<>>
    /\ news_xml = <<>>
    /\ fsWrites = <<>>

\* Array.from(new Set(list)): first occurrences, in order
RECURSIVE Dedup(_)
Dedup(list) ==
    IF list = <<>> THEN <<>>
    ELSE LET init == Dedup(Front(list))
             x == list[Len(list)]
         IN  IF \E i \in 1..Len(init) : init[i] = x THEN init
             ELSE Append(init, x)

\* line 22
ENV_FROM_VAR == IF CONTENTFUL_ENV = "" THEN "master" ELSE CONTENTFUL_ENV

\* plausible slip: only one of the two credentials is tested
MissingConfig_spaceOnly == ~SPACE

\* line 12: !SPACE || !TOKEN
MissingConfig == ~SPACE \/ ~TOKEN

\* lines 10-23: credential check, then the candidate list
CheckConfig ==
    /\ pc = "start"
    /\ IF MissingConfig
       THEN /\ pc' = "config_error"
            /\ UNCHANGED envCandidates
       ELSE /\ pc' = "fetch"
            /\ envCandidates' = Dedup(<<ENV_FROM_VAR, "master", "main">>)
    /\ UNCHANGED <<SPACE, TOKEN, CONTENTFUL_ENV, idx, requests, data,
                   ENV_USED, errorMsg, assetMap, newsTpl, NEWS_html, pages,
                   artIdx, sitemap_xml, news_xml, fsWrites, fnVars>>

\* res.ok
IsOk(status) == status \in 200..299

\* plausible slip: the "break" of line 33 is missing
Breaks_never(status) == FALSE

\* line 33: a successful response leaves the loop
Breaks(status) == IsOk(status)

\* plausible slip: 403 is not treated as an authorization failure
IsAuthError_401only(status) == status = 401

\* plausible slip: every client error is treated as fatal
IsAuthError_any4xx(status) == status \in 400..499

\* line 34
IsAuthError(status) == status = 401 \/ status = 403

\* lines 27-38: one iteration of the for-of loop; when the loop is left
\* (break, or last candidate done) line 38 is evaluated in the same step
FetchCandidate ==
    /\ pc = "fetch"
    /\ idx <= Len(envCandidates)
    /\ \E status \in Statuses, body \in Bodies :
        LET envId == envCandidates[idx]
            parsed == IF IsOk(status) THEN body ELSE NullData
            newData == IF IsOk(status) THEN parsed ELSE data
            leaves == Breaks(status) \/ idx = Len(envCandidates)
        IN  /\ ~IsOk(status) => body = NullData
            /\ requests' = Append(requests,
                   [env |-> envId, status |-> status, body |-> parsed])
            /\ data' = newData
            /\ ENV_USED' = IF IsOk(status) THEN envId ELSE ENV_USED
            /\ IF ~IsOk(status) /\ IsAuthError(status)
               THEN /\ pc' = "auth_error"
                    /\ UNCHANGED <<idx, errorMsg>>
               ELSE IF ~leaves
               THEN /\ pc' = "fetch"
                    /\ idx' = idx + 1
                    /\ UNCHANGED errorMsg
               ELSE IF newData.null
               THEN /\ pc' = "exhausted"
                    /\ errorMsg' = envCandidates
                    /\ UNCHANGED idx
               ELSE /\ pc' = "assets"
                    /\ UNCHANGED <<idx, errorMsg>>
    /\ UNCHANGED <<SPACE, TOKEN, CONTENTFUL_ENV, envCandidates, assetMap,
                   newsTpl, NEWS_html, pages, artIdx, sitemap_xml, news_xml,
                   fsWrites, fnVars>>

\* line 31: fetch() rejects (no response); the rejection is not caught
FetchRejects ==
    /\ pc = "fetch"
    /\ idx <= Len(envCandidates)
    /\ requests' = Append(requests,
           [env |-> envCandidates[idx], status |-> 0, body |-> NullData])
    /\ pc' = "fetch_failed"
    /\ UNCHANGED <<SPACE, TOKEN, CONTENTFUL_ENV, envCandidates, idx, data,
                   ENV_USED, errorMsg, assetMap, newsTpl, NEWS_html, pages,
                   artIdx, sitemap_xml, news_xml, fsWrites, fnVars>>

\* lines 43-56
BuildAssets ==
    /\ pc = "assets"
    /\ assetMap' = BuildAssetMap(data.assets)
    /\ pc' = "listing"
    /\ UNCHANGED <<SPACE, TOKEN, CONTENTFUL_ENV, envCandidates, idx,
                   requests, data, ENV_USED, errorMsg, newsTpl, NEWS_html,
                   pages, artIdx, sitemap_xml, news_xml, fsWrites, fnVars>>

\* lines 167, 209, 262, 278: the slug of an entry
slugOf(it) ==
    IF it.slug # <<>> THEN slugify(it.slug)
    ELSE slugify(IF it.title # <<>> THEN it.title ELSE it.id)

\* lines 159-165 and 205-206: the entry's image, src = <<>> when there is none
imgMetaOf(it, am) ==
    IF it.image # "" /\ it.image \in DOMAIN am
    THEN LET imgObj == am[it.image]
         IN  [src |-> imgObj.url,
              alt |-> IF it.title # <<>> THEN it.title ELSE imgObj.title,
              width |-> imgObj.width, height |-> imgObj.height]
    ELSE [src |-> <<>>, alt |-> <<>>, width |-> "", height |-> ""]

\* lines 157-185: the card of item number i (from 0)
Card(it, i, am) ==
    LET sl == splitLead(it.body, 1)
        hasMore == Len(sl.rest.content) > 0
    IN  [href |-> slugOf(it),
         title |-> esc(IF it.title # <<>> THEN it.title ELSE <<"Untitled">>),
         date |-> it.date,
         img |-> renderNewsImage(imgMetaOf(it, am), i),
         excerpt |-> renderRich(sl.lead, am),
         hasMore |-> hasMore,
         more |-> IF hasMore THEN renderRich(sl.rest, am) ELSE <<>>,
         source |-> esc(it.link)]

\* line 186: .join("\n")
RECURSIVE JoinCards(_, _, _)
JoinCards(items, i, am) ==
    IF i > Len(items) THEN <<>>
    ELSE <<CardTok(Card(items[i], i - 1, am))>>
         \o (IF i < Len(items) THEN <<NL>> ELSE <<>>)
         \o JoinCards(items, i + 1, am)

IsTok(x, t) == x.k = "tok" /\ x.tok = t.tok

SetMin(S) == CHOOSE x \in S : \A y \in S : x <= y

\* lines 188-191: replace the first START ... END region (lazy match); a
\* template without such a region is returned as it is
SpliceCards(tpl, cards) ==
    LET starts == {i \in 1..Len(tpl) : IsTok(tpl[i], START)}
    IN  IF starts = {} THEN tpl
        ELSE LET i == SetMin(starts)
                 ends == {j \in (i + 1)..Len(tpl) : IsTok(tpl[j], END)}
             IN  IF ends = {} THEN tpl
                 ELSE SubSeq(tpl, 1, i) \o <<NL>> \o cards \o <<NL>>
                      \o SubSeq(tpl, SetMin(ends), Len(tpl))

\* lines 194-197: add the RSS link before the first </head> if none is there
EnsureRssLink(page) ==
    IF \E i \in 1..Len(page) : IsTok(page[i], RSSLINK) THEN page
    ELSE LET heads == {i \in 1..Len(page) : IsTok(page[i], HEADEND)}
         IN  IF heads = {} THEN page
             ELSE LET h == SetMin(heads)
                  IN  SubSeq(page, 1, h - 1) \o <<RSSLINK, NL, HEADEND>>
                      \o SubSeq(page, h + 1, Len(page))

FileWrite(name, slug) == [file |-> name, slug |-> slug]

\* lines 149-200: read the template, build the cards, splice, write back
\* (the header and footer fragments of lines 150-153 are text copied
\* unchanged into the detail pages and are left out)
BuildListing ==
    /\ pc = "listing"
    /\ newsTpl' = NEWS_html
    /\ NEWS_html' =
         EnsureRssLink(SpliceCards(NEWS_html, JoinCards(data.items, 1, assetMap)))
    /\ fsWrites' = Append(fsWrites, FileWrite("NEWS.html", <<>>))
    /\ artIdx' = 1
    /\ pc' = IF Len(data.items) = 0 THEN "sitemap" ELSE "articles"
    /\ UNCHANGED <<SPACE, TOKEN, CONTENTFUL_ENV, envCandidates, idx,
                   requests, data, ENV_USED, errorMsg, assetMap, pages,
                   sitemap_xml, news_xml, fnVars>>

\* lines 204-251: the detail page of one entry
DetailPage(it, am) ==
    LET hero == imgMetaOf(it, am)
    IN  [canonical |-> slugOf(it),
         title |-> esc(IF it.title # <<>> THEN it.title ELSE <<"News">>),
         metaDesc |-> richToPlain(it.body, 155),
         headline |-> IF it.title # <<>> THEN it.title ELSE <<"Untitled">>,
         datePublished |-> it.date,
         image |-> hero.src,
         h1 |-> esc(IF it.title # <<>> THEN it.title ELSE <<"Untitled">>),
         hero |-> renderNewsImage(hero, 0),
         body |-> renderRich(it.body, am),
         source |-> esc(it.link)]

\* lines 203-255: one iteration of the per-article loop; the file written
\* is news/<slug>/index.html, an existing file of that name is replaced
WriteArticle ==
    /\ pc = "articles"
    /\ artIdx <= Len(data.items)
    /\ LET it == data.items[artIdx]
           slug == slugOf(it)
       IN  /\ pages' = [s \in DOMAIN pages \cup {slug} |->
                          IF s = slug THEN DetailPage(it, assetMap)
                          ELSE pages[s]]
           /\ fsWrites' = Append(fsWrites, FileWrite("index.html", slug))
    /\ artIdx' = artIdx + 1
    /\ pc' = IF artIdx = Len(data.items) THEN "sitemap" ELSE "articles"
    /\ UNCHANGED <<SPACE, TOKEN, CONTENTFUL_ENV, envCandidates, idx,
                   requests, data, ENV_USED, errorMsg, assetMap, newsTpl,
                   NEWS_html, sitemap_xml, news_xml, fnVars>>

\* lines 258-272: the listing URL, then one URL per entry
WriteSitemap ==
    /\ pc = "sitemap"
    /\ sitemap_xml' =
         <<[kind |-> "listing", slug |-> <<>>]>>
         \o [i \in 1..Len(data.items) |->
               [kind |-> "article", slug |-> slugOf(data.items[i])]]
    /\ fsWrites' = Append(fsWrites, FileWrite("sitemap.xml", <<>>))
    /\ pc' = "rss"
    /\ UNCHANGED <<SPACE, TOKEN, CONTENTFUL_ENV, envCandidates, idx,
                   requests, data, ENV_USED, errorMsg, assetMap, newsTpl,
                   NEWS_html, pages, artIdx, news_xml, fnVars>>

\* lines 275-307: the channel, then one item per entry in source order
WriteRss ==
    /\ pc = "rss"
    /\ news_xml' =
         <<[kind |-> "channel", title |-> <<>>, link |-> <<>>,
            guid |-> <<>>, pubDate |-> "", description |-> <<>>]>>
         \o [i \in 1..Len(data.items) |->
               LET it == data.items[i]
               IN  [kind |-> "item",
                    title |-> esc(IF it.title # <<>> THEN it.title
                                  ELSE <<"Untitled">>),
                    link |-> slugOf(it),
                    guid |-> it.id,
                    pubDate |-> IF it.date # "" THEN it.date ELSE "now",
                    description |-> richToPlain(it.body, 300)]]
    /\ fsWrites' = Append(fsWrites, FileWrite("news.xml", <<>>))
    /\ pc' = "done"
    /\ UNCHANGED <<SPACE, TOKEN, CONTENTFUL_ENV, envCandidates, idx,
                   requests, data, ENV_USED, errorMsg, assetMap, newsTpl,
                   NEWS_html, pages, artIdx, sitemap_xml, fnVars>>

Next ==
    \/ CheckConfig
    \/ FetchCandidate
    \/ FetchRejects
    \/ BuildAssets
    \/ BuildListing
    \/ WriteArticle
    \/ WriteSitemap
    \/ WriteRss

Spec == Init /\ [][Next]_vars

\* ------------------------------------------------------------------------
\* Properties
\* ------------------------------------------------------------------------
StatusOf(i) == requests[i].status

\* C1: candidates are requested strictly in list order, each at most once;
\* the first candidate answering with success is the last one requested,
\* and the payload and environment used are that candidate's.
FetchStopsAtFirstSuccess ==
    /\ Len(requests) <= Len(envCandidates)
    /\ \A i \in 1..Len(requests) : requests[i].env = envCandidates[i]
    /\ \A i, j \in 1..Len(requests) :
          requests[i].env = requests[j].env => i = j
    /\ \A i \in 1..Len(requests) :
          IsOk(StatusOf(i)) =>
             /\ i = Len(requests)
             /\ ENV_USED = requests[i].env
             /\ data = requests[i].body
    /\ ENV_USED # "" =>
          /\ requests # <<>>
          /\ IsOk(StatusOf(Len(requests)))

\* staging answers 404, master answers 200 with entries, main is never asked
FetchStopsAtFirstSuccessWitness ==
    /\ envCandidates = <<"staging", "master", "main">>
    /\ Len(requests) = 2
    /\ StatusOf(1) = 404
    /\ StatusOf(2) = 200
    /\ ENV_USED = "master"
    /\ Len(data.items) = 2
    /\ pc = "done"

\* C2: a 401 or 403 answer is the last request of the run and the run is in
\* the authorization-error state, with no payload and no environment used.
AuthErrorIsFatal ==
    \A i \in 1..Len(requests) :
        StatusOf(i) \in {401, 403} =>
            /\ i = Len(requests)
            /\ pc = "auth_error"
            /\ data = NullData
            /\ ENV_USED = ""
            /\ fsWrites = <<>>

\* 403 on the second of three candidates: the third is never asked
AuthErrorIsFatalWitness ==
    /\ pc = "auth_error"
    /\ Len(envCandidates) = 3
    /\ Len(requests) = 2
    /\ StatusOf(1) = 404
    /\ StatusOf(2) = 403

NonAuthFailure(i) ==
    /\ StatusOf(i) # 0
    /\ ~IsOk(StatusOf(i))
    /\ StatusOf(i) \notin {401, 403}

\* C3: while every answer so far is a non-success status other than 401/403
\* the loop goes on to the next candidate; once all candidates answered so,
\* each was requested exactly once in order and the build fails with the
\* exhaustion error naming all of them.
ExhaustionAfterAllCandidates ==
    (envCandidates # <<>> /\ \A i \in 1..Len(requests) : NonAuthFailure(i)) =>
        IF Len(requests) < Len(envCandidates)
        THEN pc = "fetch" /\ idx = Len(requests) + 1
        ELSE /\ pc = "exhausted"
             /\ [i \in 1..Len(requests) |-> requests[i].env] = envCandidates
             /\ errorMsg = envCandidates
             /\ data = NullData

ExhaustionAfterAllCandidatesWitness ==
    /\ pc = "exhausted"
    /\ Len(requests) = 3
    /\ StatusOf(1) = 404
    /\ StatusOf(2) = 500
    /\ StatusOf(3) = 404
    /\ errorMsg = <<"staging", "master", "main">>

HasMarker(tpl, m) == \E i \in 1..Len(tpl) : IsTok(tpl[i], m)

\* C4: when the template read lacks the start marker or the end marker, the
\* listing page is never written back and the build does not go on.
MissingMarkersFailBuild ==
    (pc \in {"articles", "sitemap", "rss", "done"}
       \/ \E i \in 1..Len(fsWrites) : fsWrites[i].file = "NEWS.html")
    => (HasMarker(newsTpl, START) /\ HasMarker(newsTpl, END))

ParagraphIdx(nodes) ==
    {i \in 1..Len(nodes) : nodes[i].nodeType = "paragraph"}

RankIn(I, i) == Cardinality({j \in I : j <= i})

\* the positions of the first n paragraph-kind nodes
FirstParagraphIdx(nodes, n) ==
    {i \in ParagraphIdx(nodes) : RankIn(ParagraphIdx(nodes), i) <= n}

\* the nodes at the positions I, in their original order
NodesAt(nodes, I) ==
    [r \in 1..Cardinality(I) |-> nodes[CHOOSE i \in I : RankIn(I, i) = r]]

\* C5: splitLead partitions the top-level nodes: lead is the first
\* min(n, #paragraphs) paragraph nodes in order, rest is every other node in
\* order, and putting both back at their positions rebuilds the document.
SplitLeadPartitions ==
    fnPc = "returned" =>
        LET nodes == fnArgs.rt.content
            L == FirstParagraphIdx(nodes, fnArgs.take)
            R == (1..Len(nodes)) \ L
            lead == fnRet.lead.content
            rest == fnRet.rest.content
        IN  /\ fnRet.lead.nodeType = "document"
            /\ fnRet.rest.nodeType = "document"
            /\ Len(lead) = Min(fnArgs.take, Cardinality(ParagraphIdx(nodes)))
            /\ lead = NodesAt(nodes, L)
            /\ rest = NodesAt(nodes, R)
            /\ Len(lead) + Len(rest) = Len(nodes)
            /\ \A i \in 1..Len(nodes) :
                  nodes[i] = IF i \in L THEN lead[RankIn(L, i)]
                             ELSE rest[RankIn(R, i)]

\* rule, paragraph, paragraph with take = 1: the lead is the first paragraph
SplitLeadPartitionsWitness ==
    /\ fnPc = "returned"
    /\ fnArgs.take = 1
    /\ Len(fnArgs.rt.content) = 3
    /\ fnArgs.rt.content[1].nodeType = "hr"
    /\ fnArgs.rt.content[2].nodeType = "paragraph"
    /\ fnArgs.rt.content[3].nodeType = "paragraph"
    /\ fnRet.lead.content = <<fnArgs.rt.content[2]>>
    /\ Len(fnRet.rest.content) = 2

\* depth-first concatenation of all text node values
RECURSIVE AllText(_)
AllText(nodes) ==
    IF nodes = <<>> THEN <<>>
    ELSE LET n == Head(nodes)
         IN  (IF n.nodeType = "text" THEN n.value ELSE <<>>)
             \o AllText(n.content) \o AllText(Tail(nodes))

\* C6: richToPlain(doc, max) is the HTML-escaping of the first max raw
\* characters of the concatenated text of the whole document.
RichToPlainIsEscapedPrefix ==
    fnPc = "returned" =>
        fnRet = esc(Take(AllText(<<fnArgs.rt>>), fnArgs.max))

\* C7: after a successful build every entry has its own detail page, with
\* its own content, and there are as many pages as entries.
OnePagePerEntry ==
    pc = "done" =>
        /\ Cardinality(DOMAIN pages) = Len(data.items)
        /\ \A i \in 1..Len(data.items) :
              /\ slugOf(data.items[i]) \in DOMAIN pages
              /\ pages[slugOf(data.items[i])]
                    = DetailPage(data.items[i], assetMap)

\* C8: slugify(slugify(x)) = slugify(x).
SlugifyIdempotent == fnPc = "twice" => fnRet.twice = fnRet.once

\* leading separators, an upper-case letter and a trailing separator
SlugifyIdempotentWitness ==
    /\ fnPc = "twice"
    /\ fnArgs.s = <<" ", "-", "A", "!">>
    /\ fnRet.once = <<"a">>

\* the asset record the index holds for id: the last one of the list
IndexedAssetHasUrl(assets, id) ==
    /\ \E i \in 1..Len(assets) : assets[i].id = id
    /\ LET last == CHOOSE i \in 1..Len(assets) :
                      /\ assets[i].id = id
                      /\ \A j \in 1..Len(assets) : assets[j].id = id => j <= i
       IN  assets[last].fileUrl # <<>>

\* C9: an embedded-media node whose identifier is not in the asset index, or
\* whose indexed asset has no file URL, renders as the empty string.
DanglingMediaRendersNothing ==
    (/\ fnPc = "returned"
     /\ Len(fnArgs.rt.content) = 1
     /\ fnArgs.rt.content[1].nodeType
            \in {"embedded-asset-block", "embedded-asset-inline"}
     /\ ~IndexedAssetHasUrl(fnArgs.assets, fnArgs.rt.content[1].target))
    => fnRet = <<>>

outputFiles == <<NEWS_html, pages, sitemap_xml, news_xml, fsWrites>>

\* C10: no step that leaves the run before fetch success (still starting or
\* fetching, or in a configuration, authorization, exhaustion or network
\* error) changes any output file, and with a credential missing no request
\* is ever issued.
NoOutputBeforeFetchSucceeds ==
    [][ /\ pc' \in {"start", "fetch", "config_error", "auth_error",
                    "exhausted", "fetch_failed"}
           => UNCHANGED outputFiles
        /\ (~SPACE' \/ ~TOKEN')
           => (requests' = <<>> /\ UNCHANGED outputFiles) ]_vars

\* token missing and a template on disk: the run stops before any request
NoOutputBeforeFetchSucceedsWitness ==
    /\ pc = "config_error"
    /\ SPACE
    /\ ~TOKEN
    /\ NEWS_html = <<START, END>>
    /\ requests = <<>>
    /\ fsWrites = <<>>

====
